---- MODULE Spec2Model ----
(***************************************************************************)
(* A model of kektracer (src/src/main.rs): the Bitmap accessors, the ray / *)
(* sphere intersection, the nearest-hit scan of World, Material::scatter,  *)
(* the recursive path integrator `color`, and the parallel pixel loop of   *)
(* `render`.                                                               *)
(*                                                                         *)
(* f32 values are modelled by exact rationals <<n, d>> (d > 0, in lowest   *)
(* terms).  Inputs are drawn from small lattices on which every square     *)
(* root the code takes is the root of a rational square, so the rational   *)
(* result is the real-number result of the code's formula.                 *)
(***************************************************************************)
EXTENDS Integers, Sequences, FiniteSets, TLC

----------------------------------------------------------------------------
(* Bounds of the model *)

\* longest sphere list of a World
MaxSpheres == 2
\* largest bounce budget handed to color
MaxBounces == 2
\* largest Bitmap side
MaxSide == 2
\* largest number of slots of the Bitmap render is called on
MaxPixels == 4
\* samples summed per pixel (aa_samples, 100 in the source)
MaxSamples == 2
\* number of parallel workers draining the pixel iterator
MaxWorkers == 2

----------------------------------------------------------------------------
(* Rational arithmetic *)

(***************************************************************************)
(* An operand is bound by a set constructor, {e : x \in {v}}, wherever its *)
(* value is used more than once: v is evaluated once and x names its       *)
(* value, as a Rust argument or `let` does; CHOOSE takes the one element.  *)
(***************************************************************************)

Abs(n) == IF n < 0 THEN -n ELSE n

RECURSIVE Gcd(_, _)
Gcd(a, b) == IF b = 0 THEN a ELSE Gcd(b, a % b)

\* the rational n/d (d # 0) in lowest terms with a positive denominator
Rat(n, d) ==
    LET g == Gcd(Abs(n), Abs(d))
        s == IF d < 0 THEN -1 ELSE 1
    IN  <<(s * n) \div g, (s * d) \div g>>

R(n) == <<n, 1>>
RAdd(p0, q0) ==
    CHOOSE r \in {Rat(p[1] * q[2] + q[1] * p[2], p[2] * q[2]) :
                     p \in {p0}, q \in {q0}} : TRUE
RSub(p0, q0) ==
    CHOOSE r \in {Rat(p[1] * q[2] - q[1] * p[2], p[2] * q[2]) :
                     p \in {p0}, q \in {q0}} : TRUE
RNeg(p0) == CHOOSE r \in {<<-p[1], p[2]>> : p \in {p0}} : TRUE
RMul(p0, q0) ==
    CHOOSE r \in {Rat(p[1] * q[1], p[2] * q[2]) : p \in {p0}, q \in {q0}} : TRUE
RDiv(p0, q0) ==
    CHOOSE r \in {Rat(p[1] * q[2], p[2] * q[1]) : p \in {p0}, q \in {q0}} : TRUE
RLt(p0, q0) == \E p \in {p0}, q \in {q0} : p[1] * q[2] < q[1] * p[2]
RGt(p, q) == RLt(q, p)
RLe(p, q) == ~RLt(q, p)
RMin(p0, q0) ==
    CHOOSE r \in {IF RLt(q, p) THEN q ELSE p : p \in {p0}, q \in {q0}} : TRUE
RMax(p0, q0) ==
    CHOOSE r \in {IF RLt(p, q) THEN q ELSE p : p \in {p0}, q \in {q0}} : TRUE

RECURSIVE FloorSqrtIn(_, _, _)
FloorSqrtIn(n, lo, hi) ==
    IF lo >= hi THEN lo
    ELSE LET mid == (lo + hi + 1) \div 2
         IN  IF mid * mid <= n THEN FloorSqrtIn(n, mid, hi)
                               ELSE FloorSqrtIn(n, lo, mid - 1)

\* the largest k with k*k <= n  (n >= 0)
FloorSqrt(n0) ==
    CHOOSE k \in {FloorSqrtIn(n, 0, IF n < 46340 THEN n ELSE 46340) :
                     n \in {n0}} : TRUE

IsSquare(p0) ==
    \E p \in {p0} :
        /\ p[1] >= 0
        /\ \E k \in {FloorSqrt(p[1])}, m \in {FloorSqrt(p[2])} :
              k * k = p[1] /\ m * m = p[2]

\* f32::sqrt on a rational square; undefined (no value to choose) elsewhere
RSqrt(p0) ==
    CHOOSE r \in {<<FloorSqrt(p[1]), FloorSqrt(p[2])>> : p \in {p0}} :
        \E p \in {p0} : r[1] * r[1] = p[1] /\ r[2] * r[2] = p[2]

\* fn clamped
clamped(x0, min, max) ==
    CHOOSE r \in {IF RLt(x, min) THEN min
                  ELSE IF RGt(x, max) THEN max
                  ELSE x : x \in {x0}} : TRUE

----------------------------------------------------------------------------
(* Vec3 *)

Vec3_new(x, y, z) == [x |-> x, y |-> y, z |-> z]
\* a vector with integer components
V(x, y, z) == Vec3_new(R(x), R(y), R(z))
zero == Vec3_new(R(0), R(0), R(0))

add(a0, b0) ==
    CHOOSE r \in {Vec3_new(RAdd(a.x, b.x), RAdd(a.y, b.y), RAdd(a.z, b.z)) :
                     a \in {a0}, b \in {b0}} : TRUE
subtract(a0, b0) ==
    CHOOSE r \in {Vec3_new(RSub(a.x, b.x), RSub(a.y, b.y), RSub(a.z, b.z)) :
                     a \in {a0}, b \in {b0}} : TRUE
multiply(a0, b0) ==
    CHOOSE r \in {Vec3_new(RMul(a.x, b.x), RMul(a.y, b.y), RMul(a.z, b.z)) :
                     a \in {a0}, b \in {b0}} : TRUE
multiply_scalar(a0, s0) ==
    CHOOSE r \in {Vec3_new(RMul(a.x, s), RMul(a.y, s), RMul(a.z, s)) :
                     a \in {a0}, s \in {s0}} : TRUE
div_scalar(a0, s0) ==
    CHOOSE r \in {Vec3_new(RDiv(a.x, s), RDiv(a.y, s), RDiv(a.z, s)) :
                     a \in {a0}, s \in {s0}} : TRUE
dot(a0, b0) ==
    CHOOSE r \in {RAdd(RAdd(RMul(a.x, b.x), RMul(a.y, b.y)), RMul(a.z, b.z)) :
                     a \in {a0}, b \in {b0}} : TRUE
squared_length(a0) ==
    CHOOSE r \in {RAdd(RAdd(RMul(a.x, a.x), RMul(a.y, a.y)), RMul(a.z, a.z)) :
                     a \in {a0}} : TRUE
length(a) == RSqrt(squared_length(a))
unit_vector(a0) == CHOOSE r \in {div_scalar(a, length(a)) : a \in {a0}} : TRUE

lerp(from, to, v0) ==
    CHOOSE r \in {add(multiply_scalar(from, RSub(R(1), v)),
                      multiply_scalar(to, v)) :
                     v \in {RMax(RMin(v0, R(1)), R(0))}} : TRUE

----------------------------------------------------------------------------
(* Ray, Hit, Sphere *)

None == <<>>
Some(x) == <<x>>
Get(o) == o[1]

Ray_new(origin, direction) == [origin |-> origin, direction |-> direction]
point_at_parameter(ray, t) ==
    add(ray.origin, multiply_scalar(ray.direction, t))

Hit_new(t, position, normal) ==
    [t |-> t, position |-> position, normal |-> normal]

Diffuse(albedo) == [kind |-> "Diffuse", albedo |-> albedo]
Metal(albedo, fuzz) == [kind |-> "Metal", albedo |-> albedo, fuzz |-> fuzz]
Sphere_new(center, radius, material) ==
    [center |-> center, radius |-> radius, material |-> material]

\* the coefficients Sphere::hit_test computes: a, b, c and the discriminant
Quadratic(s, ray) ==
    CHOOSE r \in
        {[a |-> a, b |-> b, c |-> c,
          discriminant |-> RSub(RMul(b, b), RMul(a, c))] :
            a \in {dot(ray.direction, ray.direction)},
            b \in {dot(subtract(ray.origin, s.center), ray.direction)},
            c \in {RSub(dot(subtract(ray.origin, s.center),
                            subtract(ray.origin, s.center)),
                        RMul(s.radius, s.radius))}} : TRUE

\* the Hit Sphere::hit_test builds for the accepted root temp
HitAt(s, ray, temp) ==
    CHOOSE r \in
        {Hit_new(temp, point, div_scalar(subtract(point, s.center), s.radius)) :
            point \in {point_at_parameter(ray, temp)}} : TRUE

\* Sphere::hit_test with the test discriminant >= 0.0: a tangent ray counts
Sphere_hit_test_tangent(s, ray, t_min, t_max) ==
    CHOOSE r \in
        {IF RLe(R(0), q.discriminant)
         THEN CHOOSE h \in
                 {IF RLt(temp1, t_max) /\ RGt(temp1, t_min)
                  THEN Some(HitAt(s, ray, temp1))
                  ELSE IF RLt(temp2, t_max) /\ RGt(temp2, t_min)
                  THEN Some(HitAt(s, ray, temp2))
                  ELSE None :
                     temp1 \in {RDiv(RSub(RNeg(q.b), RSqrt(q.discriminant)),
                                     q.a)},
                     temp2 \in {RDiv(RAdd(RNeg(q.b), RSqrt(q.discriminant)),
                                     q.a)}} :
                 TRUE
         ELSE None :
            q \in {Quadratic(s, ray)}} : TRUE

\* Sphere::hit_test
Sphere_hit_test(s, ray, t_min, t_max) ==
    CHOOSE r \in
        {IF RGt(q.discriminant, R(0))
         THEN CHOOSE h \in
                 {IF RLt(temp1, t_max) /\ RGt(temp1, t_min)
                  THEN Some(HitAt(s, ray, temp1))
                  ELSE IF RLt(temp2, t_max) /\ RGt(temp2, t_min)
                  THEN Some(HitAt(s, ray, temp2))
                  ELSE None :
                     temp1 \in {RDiv(RSub(RNeg(q.b),
                                          RSqrt(RSub(RMul(q.b, q.b),
                                                     RMul(q.a, q.c)))), q.a)},
                     temp2 \in {RDiv(RAdd(RNeg(q.b),
                                          RSqrt(RSub(RMul(q.b, q.b),
                                                     RMul(q.a, q.c)))), q.a)}} :
                 TRUE
         ELSE None :
            q \in {Quadratic(s, ray)}} : TRUE

\* the closure without the update closest_t = hit.t
hit_test_closure_keeps_t_max(acc, s, ray, t_min) ==
    CHOOSE r \in
        {IF hit # None
         THEN [closest_t |-> acc.closest_t,
               result |-> Some([hit |-> Get(hit), material |-> s.material])]
         ELSE acc :
            hit \in {Sphere_hit_test(s, ray, t_min, acc.closest_t)}} : TRUE

\* the closure World::hit_test runs on each sphere: acc is (closest_t, result)
hit_test_closure(acc, s, ray, t_min) ==
    CHOOSE r \in
        {IF hit # None
         THEN [closest_t |-> Get(hit).t,
               result |-> Some([hit |-> Get(hit), material |-> s.material])]
         ELSE acc :
            hit \in {Sphere_hit_test(s, ray, t_min, acc.closest_t)}} : TRUE

RECURSIVE hit_test_for_each(_, _, _, _, _)
hit_test_for_each(spheres, i, acc, ray, t_min) ==
    IF i > Len(spheres) THEN acc
    ELSE CHOOSE r \in
             {hit_test_for_each(spheres, i + 1, next, ray, t_min) :
                 next \in {hit_test_closure(acc, spheres[i], ray, t_min)}} : TRUE

\* World::hit_test
World_hit_test(world, ray, t_min, t_max) ==
    hit_test_for_each(world, 1, [closest_t |-> t_max, result |-> None],
                      ray, t_min).result

----------------------------------------------------------------------------
(* Material::scatter.  rnd is the vector Vec3::random_in_unit_sphere returned *)

reflect(v0, normal0) ==
    CHOOSE r \in
        {subtract(v, multiply_scalar(normal, RMul(R(2), dot(v, normal)))) :
            v \in {v0}, normal \in {normal0}} : TRUE

MaterialScatter(attenuation, scattered_ray) ==
    [attenuation |-> attenuation, scattered_ray |-> scattered_ray]

\* Material::scatter whose Metal arm tests dot >= 0.0
scatter_nonnegative(material, ray, hit, rnd) ==
    IF material.kind = "Diffuse"
    THEN CHOOSE r \in
             {Some(MaterialScatter(material.albedo,
                      Ray_new(hit.position, subtract(target, hit.position)))) :
                 target \in {add(add(hit.position, hit.normal), rnd)}} : TRUE
    ELSE CHOOSE r \in
             {IF RLe(R(0), dot(scattered_ray.direction, hit.normal))
              THEN Some(MaterialScatter(material.albedo, scattered_ray))
              ELSE None :
                 scattered_ray \in
                     {Ray_new(hit.position,
                              add(reflect(unit_vector(ray.direction), hit.normal),
                                  multiply_scalar(rnd,
                                      clamped(material.fuzz, R(0), R(1)))))}} :
             TRUE

scatter(material, ray, hit, rnd) ==
    IF material.kind = "Diffuse"
    THEN CHOOSE r \in
             {Some(MaterialScatter(material.albedo,
                      Ray_new(hit.position, subtract(target, hit.position)))) :
                 target \in {add(add(hit.position, hit.normal), rnd)}} : TRUE
    ELSE CHOOSE r \in
             {IF RGt(dot(scattered_ray.direction, hit.normal), R(0))
              THEN Some(MaterialScatter(material.albedo, scattered_ray))
              ELSE None :
                 scattered_ray \in
                     {Ray_new(hit.position,
                              add(reflect(unit_vector(ray.direction), hit.normal),
                                  multiply_scalar(rnd,
                                      clamped(material.fuzz, R(0), R(1)))))}} :
             TRUE

----------------------------------------------------------------------------
(* color: one invocation up to its recursive call *)

\* the bounds color hands to World::hit_test
TMin == <<1, 1000>>
TMax == <<1000, 1>>

white == V(1, 1, 1)
skyblue == Vec3_new(<<1, 2>>, <<7, 10>>, R(1))

\* the gradient with the two colours exchanged
background_swapped(ray) ==
    lerp(skyblue, white,
         RMul(RAdd(unit_vector(ray.direction).y, R(1)), <<1, 2>>))

background(ray) ==
    lerp(white, skyblue,
         RMul(RAdd(unit_vector(ray.direction).y, R(1)), <<1, 2>>))

\* color testing bounces == 0 before it looks at the hit
color_budget_first(found, ray, bounces, rnd) ==
    IF bounces = 0
    THEN [kind |-> "cutoff", value |-> zero]
    ELSE IF found # None
    THEN CHOOSE r \in
             {IF s # None
              THEN [kind |-> "scatter",
                    attenuation |-> Get(s).attenuation,
                    ray |-> Get(s).scattered_ray,
                    bounces |-> bounces - 1]
              ELSE [kind |-> "absorbed", value |-> zero] :
                 s \in {scatter(Get(found).material, ray,
                                Get(found).hit, rnd)}} : TRUE
    ELSE [kind |-> "miss", value |-> background(ray)]

\* color handing its own budget to the recursive call
color_no_decrement(found, ray, bounces, rnd) ==
    IF found # None
    THEN IF bounces = 0
         THEN [kind |-> "cutoff", value |-> zero]
         ELSE CHOOSE r \in
                  {IF s # None
                   THEN [kind |-> "scatter",
                         attenuation |-> Get(s).attenuation,
                         ray |-> Get(s).scattered_ray,
                         bounces |-> bounces]
                   ELSE [kind |-> "absorbed", value |-> zero] :
                      s \in {scatter(Get(found).material, ray,
                                     Get(found).hit, rnd)}} : TRUE
    ELSE [kind |-> "miss", value |-> background(ray)]

\* What an invocation of color does once World::hit_test(ray, 0.001, 1000.0)
\* has answered found: it returns a value ("cutoff", "absorbed", "miss") or
\* makes the recursive call ("scatter"), whose result it multiplies by
\* attenuation.
color_after_hit_test(found, ray, bounces, rnd) ==
    IF found # None
    THEN IF bounces = 0
         THEN [kind |-> "cutoff", value |-> zero]
         ELSE CHOOSE r \in
                  {IF s # None
                   THEN [kind |-> "scatter",
                         attenuation |-> Get(s).attenuation,
                         ray |-> Get(s).scattered_ray,
                         bounces |-> bounces - 1]
                   ELSE [kind |-> "absorbed", value |-> zero] :
                      s \in {scatter(Get(found).material, ray,
                                     Get(found).hit, rnd)}} : TRUE
    ELSE [kind |-> "miss", value |-> background(ray)]

----------------------------------------------------------------------------
(* Bitmap *)

\* a u32 is the pair <<high 16 bits, low 16 bits>>
U32(n) == <<(n \div 65536) % 65536, n % 65536>>

Pow2(k) == IF k = 0 THEN 1 ELSE IF k = 8 THEN 256 ELSE 65536

RECURSIVE BitOr16(_, _, _)
BitOr16(a, b, bits) ==
    IF bits = 0 THEN 0
    ELSE (IF a % 2 = 1 \/ b % 2 = 1 THEN 1 ELSE 0)
         + 2 * BitOr16(a \div 2, b \div 2, bits - 1)

RECURSIVE BitAnd16(_, _, _)
BitAnd16(a, b, bits) ==
    IF bits = 0 THEN 0
    ELSE (IF a % 2 = 1 /\ b % 2 = 1 THEN 1 ELSE 0)
         + 2 * BitAnd16(a \div 2, b \div 2, bits - 1)

\* u32 | u32, u32 & u32, u32 << k (k in {0, 8, 16})
BitOr(v, w) == <<BitOr16(v[1], w[1], 16), BitOr16(v[2], w[2], 16)>>
BitAnd(v, w) == <<BitAnd16(v[1], w[1], 16), BitAnd16(v[2], w[2], 16)>>
Shl(v, k) ==
    <<(v[1] % Pow2(16 - k)) * Pow2(k) + v[2] \div Pow2(16 - k),
      (v[2] % Pow2(16 - k)) * Pow2(k)>>

\* Bitmap::new
Bitmap_new(width, height) ==
    [width |-> width, height |-> height,
     buffer |-> [i \in 0 .. width * height - 1 |-> U32(0)]]

\* Bitmap::get_mut with the bounds test x > width || y > height
get_mut_inclusive(self, x, y) ==
    IF x > self.width \/ y > self.height
    THEN None
    ELSE Some((self.height - y - 1) * self.width + x)

\* Bitmap::get_mut: the index of the slot the returned reference points at
get_mut(self, x, y) ==
    IF x >= self.width \/ y >= self.height
    THEN None
    ELSE Some((self.height - y - 1) * self.width + x)

\* Bitmap::iter_mut yielding the row counted from the top
iter_mut_item_no_flip(self, i) ==
    LET y == i \div self.width
        x == i - y * self.width
    IN  [x |-> x, y |-> y, slot |-> i]

\* Bitmap::iter_mut pairing every item of a row with the row's first slot
iter_mut_item_row_slot(self, i) ==
    LET y == i \div self.width
        x == i - y * self.width
    IN  [x |-> x, y |-> self.height - y - 1, slot |-> y * self.width]

\* Bitmap::iter_mut: the item the iterator yields for buffer index i
iter_mut_item(self, i) ==
    LET y == i \div self.width
        x == i - y * self.width
    IN  [x |-> x, y |-> self.height - y - 1, slot |-> i]

----------------------------------------------------------------------------
(* render: what the closure does with one pixel once the samples are summed *)

\* the quantisation with the factor 256
quantize_256(ch) == FloorSqrt((256 * 256 * ch[1]) \div ch[2])

\* (ch.sqrt() * u8::MAX as f32) as u32, for a channel ch >= 0:
\* the integer part of 255 * sqrt(ch)
quantize(ch) == FloorSqrt((255 * 255 * ch[1]) \div ch[2])

\* lines 472-476: gamma, quantisation and packing into the slot holding p
pixel_store(p, c) ==
    LET r == U32(quantize(c.x))
        g == U32(quantize(c.y))
        b == U32(quantize(c.z))
    IN  BitOr(BitOr(BitOr(BitAnd(p, <<65280, 0>>), Shl(r, 16)), Shl(g, 8)), b)

----------------------------------------------------------------------------
(* State *)

VARIABLES
    bitmap,     \* the Bitmap: [width, height, buffer]
    got,        \* the last Bitmap::get_mut call: Some([x, y, out]), or None
    yielded,    \* the items Bitmap::iter_mut has yielded, in order
    next_item,  \* render: buffer index the bridged iterator yields next
    held,       \* render: worker -> the item its closure is running on
    writes,     \* render: buffer index -> number of stores into the slot
    returned,   \* render: TRUE once render has returned
    px,         \* one run of the pixel closure: [before, c, samples, after]
    query,      \* World::hit_test call: [ray, world, t_min, t_max]
    acc,        \* its locals: [closest_t, result]
    hidx,       \* index of the sphere for_each visits next
    applied,    \* the last Sphere::hit_test call: Some([s, t_max, out]), or None
    found,      \* Some(value World::hit_test returned), None until it returns
    world,      \* color: the World
    stack,      \* color: the active invocations, outermost first
    pc,         \* color: "call", "return" or "done"
    ret,        \* color: Some(value the last finished invocation returned)
    event,      \* color: what the last step did, and in which invocation
    hist        \* color: [ray0, n0, calls, scatters]

bitmapVars == <<bitmap, got, yielded>>
renderVars == <<next_item, held, writes, returned>>
hitVars == <<query, acc, hidx, applied, found>>
colorVars == <<world, stack, pc, ret, event, hist>>
vars == <<bitmap, got, yielded, next_item, held, writes, returned, px,
          query, acc, hidx, applied, found, world, stack, pc, ret, event, hist>>

\* the parts of the state a specification does not use
BitmapIdle == bitmap = Bitmap_new(0, 0) /\ got = None /\ yielded = <<>>
RenderIdle ==
    next_item = 0 /\ held = <<>> /\ writes = <<>> /\ returned = FALSE
PixelIdle == px = None
HitIdle ==
    query = None /\ acc = None /\ hidx = 0 /\ applied = None /\ found = None
ColorIdle ==
    /\ world = <<>> /\ stack = <<>> /\ pc = "idle"
    /\ ret = None /\ event = None /\ hist = None

----------------------------------------------------------------------------
(* Inputs *)

\* rational k/n
Q(k, n) == Rat(k, n)

S1 == Sphere_new(V(0, 0, 0), R(1),
                 Metal(Vec3_new(Q(3, 5), Q(3, 5), Q(3, 5)), R(2)))
S2 == Sphere_new(V(0, 2, 0), R(1),
                 Diffuse(Vec3_new(Q(4, 5), Q(4, 5), R(0))))
S3 == Sphere_new(V(0, -4, 0), R(1),
                 Metal(Vec3_new(Q(2, 5), Q(2, 5), Q(4, 5)), R(0)))
S4 == Sphere_new(V(0, 0, 0), R(1),
                 Diffuse(Vec3_new(Q(9, 10), Q(1, 5), Q(1, 5))))
S5 == Sphere_new(V(0, -4, 0), R(1),
                 Diffuse(Vec3_new(Q(4, 5), Q(4, 5), R(0))))
RECURSIVE SeqsUpTo(_, _)
SeqsUpTo(S, n) ==
    IF n = 0 THEN {<<>>}
    ELSE LET shorter == SeqsUpTo(S, n - 1)
         IN  shorter \cup {Append(w, s) : w \in shorter, s \in S}

\* the worlds World::hit_test is called on
Worlds == SeqsUpTo({S1, S2, S4}, MaxSpheres)

Origins == {V(0, y, z) : y \in {-2, 0, 1, 4}, z \in {-2, 0}}
Directions ==
    ({V(0, dy, dz) : dy \in -1 .. 1, dz \in -1 .. 1} \ {zero})
        \cup {V(0, -3, 4)}
Rays == {Ray_new(o, d) : o \in Origins, d \in Directions}

\* The worlds and rays color is first called with.  The spheres sit on the
\* y axis and the draws of random_in_unit_sphere are along it; a ray either
\* runs along the axis and meets the spheres head-on, or comes in along
\* (0, -3, 4) and meets S1 at (0, 1, 0), or meets nothing.  Every ray color
\* is ever called with, for every draw, then has a rational length and
\* rational intersections, so every step of every run is computed exactly.
ColorWorlds == SeqsUpTo({S1, S3, S5}, MaxSpheres)
ColorRays ==
    {Ray_new(o, d) : o \in {V(0, -2, 0), V(0, 4, 0)},
                     d \in {V(0, 1, 0), V(0, -1, 0)}}
        \cup {Ray_new(o, V(0, -3, 4)) : o \in {V(0, 4, 0), V(0, 4, -4)}}

\* every square root Sphere::hit_test takes of the ray is rational
ExactHits(ray, w) ==
    \A i \in 1 .. Len(w) :
        \E disc \in {Quadratic(w[i], ray).discriminant} :
            RLe(disc, R(0)) \/ IsSquare(disc)

\* Vec3::random_in_unit_sphere: the draws from [-1, 1) the rejection loop accepts
UniformDraws == {R(-1), Q(-14, 15), Q(-3, 5), Q(-4, 15), R(0)}
random_in_unit_sphere ==
    {p \in {Vec3_new(R(0), y, R(0)) : y \in UniformDraws} :
        RLt(squared_length(p), R(1))}

----------------------------------------------------------------------------
(* World::hit_test, one sphere of the for_each at a time *)

Bounds == {<<TMin, TMax>>, <<R(1), R(3)>>, <<R(0), R(2)>>}

HitInit ==
    /\ \E ray \in Rays, w \in Worlds, bd \in Bounds :
          /\ ExactHits(ray, w) = TRUE
          /\ query = [ray |-> ray, world |-> w, t_min |-> bd[1], t_max |-> bd[2]]
          /\ acc = [closest_t |-> bd[2], result |-> None]
    /\ hidx = 1
    /\ applied = None
    /\ found = None
    /\ BitmapIdle /\ RenderIdle /\ PixelIdle /\ ColorIdle

HitTestEach ==
    /\ found = None
    /\ hidx <= Len(query.world)
    /\ \E s \in {query.world[hidx]} :
           /\ acc' = hit_test_closure(acc, s, query.ray, query.t_min)
           /\ applied' = Some([s |-> s, t_max |-> acc.closest_t,
                               out |-> Sphere_hit_test(s, query.ray, query.t_min,
                                                       acc.closest_t)])
    /\ hidx' = hidx + 1
    /\ UNCHANGED <<query, found>>
    /\ UNCHANGED <<bitmapVars, renderVars, px, colorVars>>

HitTestReturn ==
    /\ found = None
    /\ hidx > Len(query.world)
    /\ found' = Some(acc.result)
    /\ UNCHANGED <<query, acc, hidx, applied>>
    /\ UNCHANGED <<bitmapVars, renderVars, px, colorVars>>

HitNext == HitTestEach \/ HitTestReturn

SpecHit == HitInit /\ [][HitNext]_vars

----------------------------------------------------------------------------
(* Claims about the intersection tests, checked under SpecHit *)

\* the least element of a non-empty set of rationals
Least(T) == CHOOSE t \in T : \A u \in T : RLe(t, u)

FarRoot(q) ==
    q.a[1] + (IF Abs(2 * q.b[1]) > Abs(q.c[1]) THEN Abs(2 * q.b[1])
                                               ELSE Abs(q.c[1]))

\* The real roots of a*t^2 + 2*b*t + c = 0 for the ray and the sphere, found by
\* trying every candidate: the coefficients are integers here, so a rational
\* root is n/a with |n| <= a + max(|2b|, |c|).
RealRoots(s, ray) ==
    UNION {{t \in {Rat(n, q.a[1]) : n \in -FarRoot(q) .. FarRoot(q)} :
               RAdd(RAdd(RMul(q.a, RMul(t, t)), RMul(R(2), RMul(q.b, t))),
                    q.c) = R(0)} :
              q \in {Quadratic(s, ray)}}

Within(T, t_min, t_max) == {t \in T : RLt(t_min, t) /\ RLt(t, t_max)}

\* the Sphere::hit_test call recorded in applied returned the least of roots,
\* or None when roots is empty
ReportsLeastOf(roots) ==
    LET call == Get(applied)
    IN  IF roots = {}
        THEN call.out = None
        ELSE /\ call.out # None
             /\ Get(call.out).t = Least(roots)
             /\ RLt(query.t_min, Get(call.out).t)
             /\ RLt(Get(call.out).t, call.t_max)

\* C5 as stated: Sphere::hit_test reports the smallest real root lying strictly
\* between t_min and t_max whenever there is one, the tangent case (one double
\* root) included, and reports no hit otherwise.
C5_AnyRealRoot ==
    applied # None =>
        ReportsLeastOf(Within(RealRoots(Get(applied).s, query.ray),
                              query.t_min, Get(applied).t_max))

\* C5 amended: Sphere::hit_test reports a hit exactly when the quadratic has two
\* distinct real roots (discriminant > 0) and one of them lies strictly between
\* t_min and t_max; it then returns the smaller root if that one is in the
\* interval and the larger otherwise, so t_min < t < t_max.  A tangent ray
\* (discriminant = 0) is never reported as a hit.
C5_TwoDistinctRoots ==
    applied # None =>
        LET roots == RealRoots(Get(applied).s, query.ray)
        IN  ReportsLeastOf(IF Cardinality(roots) = 2
                           THEN Within(roots, query.t_min, Get(applied).t_max)
                           ELSE {})

\* a call that returned the larger root because the smaller one is outside
C5_Witness ==
    /\ applied # None
    /\ Get(applied).out # None
    /\ LET roots == RealRoots(Get(applied).s, query.ray)
       IN  /\ Cardinality(roots) = 2
           /\ Get(Get(applied).out).t # Least(roots)

\* a tangent ray whose double root lies inside the interval
C5_TangentWitness ==
    /\ applied # None
    /\ LET roots == RealRoots(Get(applied).s, query.ray)
       IN  /\ Cardinality(roots) = 1
           /\ Within(roots, query.t_min, Get(applied).t_max) # {}

\* what each sphere of the query reports on its own, with the query's bounds
Alone(i) ==
    Sphere_hit_test(query.world[i], query.ray, query.t_min, query.t_max)

Hitters == {i \in 1 .. Len(query.world) : Alone(i) # None}

\* the first sphere of the list among those reporting the smallest t
Nearest ==
    CHOOSE i \in Hitters :
        \A j \in Hitters :
            \/ RLt(Get(Alone(i)).t, Get(Alone(j)).t)
            \/ (Get(Alone(i)).t = Get(Alone(j)).t /\ i <= j)

\* C4: World::hit_test returns nothing when no sphere reports a hit in the
\* range; otherwise the hit with the smallest t over all spheres, with the
\* material of the sphere that produced it, the earlier sphere on an exact tie.
C4_NearestHit ==
    found # None =>
        IF Hitters = {}
        THEN Get(found) = None
        ELSE Get(found) = Some([hit |-> Get(Alone(Nearest)),
                                material |-> query.world[Nearest].material])

\* two spheres of different material report the same smallest t
C4_Witness ==
    /\ found # None
    /\ \E i, j \in Hitters :
          /\ i < j
          /\ i = Nearest
          /\ Get(Alone(i)).t = Get(Alone(j)).t
          /\ query.world[i].material # query.world[j].material
          /\ query.world[i].center # query.world[j].center

----------------------------------------------------------------------------
(* color(ray, world, bounces): the chain of nested invocations *)

Frame(ray, bounces) == [ray |-> ray, bounces |-> bounces, attenuation |-> None]

Top == stack[Len(stack)]

ColorInit ==
    /\ \E w \in ColorWorlds, ray \in ColorRays, n \in 0 .. MaxBounces :
          /\ world = w
          /\ stack = <<Frame(ray, n)>>
          /\ hist = [ray0 |-> ray, n0 |-> n, calls |-> 1, scatters |-> 0]
    /\ pc = "call"
    /\ ret = None
    /\ event = None
    /\ BitmapIdle /\ RenderIdle /\ PixelIdle /\ HitIdle

\* the invocation on top of the stack returns value
Return(value) ==
    /\ ret' = Some(value)
    /\ stack' = SubSeq(stack, 1, Len(stack) - 1)
    /\ pc' = IF Len(stack) = 1 THEN "done" ELSE "return"

Event(kind, rnd) ==
    Some([kind |-> kind, ray |-> Top.ray, bounces |-> Top.bounces,
          depth |-> Len(stack), rnd |-> rnd])

\* the ray hits nothing: the background gradient
ColorMiss(out) ==
    /\ out.kind = "miss"
    /\ Return(out.value)
    /\ event' = Event("miss", None)
    /\ UNCHANGED hist

\* the ray hits a sphere and the budget is spent
ColorCutoff(out) ==
    /\ out.kind = "cutoff"
    /\ Return(out.value)
    /\ event' = Event("cutoff", None)
    /\ UNCHANGED hist

\* the ray hits a sphere whose material scatters nothing
ColorAbsorbed(out, rnd) ==
    /\ out.kind = "absorbed"
    /\ Return(out.value)
    /\ event' = Event("absorbed", Some(rnd))
    /\ hist' = [hist EXCEPT !.scatters = @ + 1]

\* the ray hits a sphere whose material scatters it: the recursive call
ColorScatter(out, rnd) ==
    /\ out.kind = "scatter"
    /\ stack' = Append([stack EXCEPT ![Len(stack)].attenuation =
                                         Some(out.attenuation)],
                       Frame(out.ray, out.bounces))
    /\ event' = Event("scatter", Some(rnd))
    /\ hist' = [hist EXCEPT !.scatters = @ + 1, !.calls = @ + 1]
    /\ UNCHANGED <<pc, ret>>

\* one invocation of color, rnd being what random_in_unit_sphere returns if
\* scatter is reached
ColorCall ==
    /\ pc = "call"
    /\ \E h \in {World_hit_test(world, Top.ray, TMin, TMax)} :
          \E rnd \in random_in_unit_sphere :
              \E out \in {color_after_hit_test(h, Top.ray, Top.bounces,
                                                rnd)} :
                  \/ ColorMiss(out)
                  \/ ColorCutoff(out)
                  \/ ColorAbsorbed(out, rnd)
                  \/ ColorScatter(out, rnd)
    /\ UNCHANGED world
    /\ UNCHANGED <<bitmapVars, renderVars, px, hitVars>>

\* the recursive call has returned: attenuation * its value
ColorResume ==
    /\ pc = "return"
    /\ Return(multiply(Get(Top.attenuation), Get(ret)))
    /\ event' = Event("resume", None)
    /\ UNCHANGED <<world, hist>>
    /\ UNCHANGED <<bitmapVars, renderVars, px, hitVars>>

ColorNext == ColorCall \/ ColorResume

\* an invocation that has started runs on: nothing else is scheduled
SpecColor == ColorInit /\ [][ColorNext]_vars /\ WF_vars(ColorNext)

----------------------------------------------------------------------------
(* Claims about color, checked under SpecColor *)

\* what World::hit_test answers for the ray color was first called with
FirstHit == World_hit_test(world, hist.ray0, TMin, TMax)

\* the gradient (1 - v) * white + v * skyblue, v = 0.5 * (y / |d| + 1) in [0, 1]
Gradient(ray) ==
    LET d == ray.direction
        len == RSqrt(RAdd(RAdd(RMul(d.x, d.x), RMul(d.y, d.y)), RMul(d.z, d.z)))
        v0 == RMul(<<1, 2>>, RAdd(RDiv(d.y, len), R(1)))
        v == IF RLt(v0, R(0)) THEN R(0) ELSE IF RLt(R(1), v0) THEN R(1) ELSE v0
        u == RSub(R(1), v)
    IN  [x |-> RAdd(u, RMul(v, <<1, 2>>)),
         y |-> RAdd(u, RMul(v, <<7, 10>>)),
         z |-> RAdd(u, v)]

\* C1 as stated: color called with bounces = 0 returns black for every world
\* and every ray, also when the ray hits no sphere.
C1_BlackAtZero ==
    (pc = "done" /\ hist.n0 = 0) => Get(ret) = zero

\* C1 amended: color called with bounces = 0 returns black (0,0,0) for every
\* world and every ray that hits a sphere; when the ray hits no sphere it
\* returns the background gradient of the ray, which is not black.
C1_BlackAtZeroOnHit ==
    (pc = "done" /\ hist.n0 = 0) =>
        IF FirstHit # None
        THEN Get(ret) = zero
        ELSE Get(ret) = Gradient(hist.ray0) /\ Get(ret) # zero

\* a call with bounces = 0 whose ray hit a sphere has returned
C1_Witness ==
    pc = "done" /\ hist.n0 = 0 /\ FirstHit # None /\ Get(ret) = zero

\* C6: in a world with no spheres color returns exactly the background
\* gradient of its ray, for every ray and every value of bounces, without
\* invoking any material scatter and without any recursive call.
C6_EmptyWorld ==
    (pc # "idle" /\ world = <<>>) =>
        /\ hist.scatters = 0
        /\ hist.calls = 1
        /\ Len(stack) <= 1
        /\ pc = "done" => Get(ret) = Gradient(hist.ray0)

\* color has returned in the empty world from a call with bounces = 0, for a
\* ray that points upwards
C6_Witness ==
    /\ pc = "done" /\ world = <<>> /\ hist.n0 = 0
    /\ RLt(R(0), hist.ray0.direction.y)
    /\ Get(ret) = skyblue

\* every invocation on the stack holds a budget one less than its caller's,
\* none below 0, and at most n + 1 invocations are nested or were ever made
C8_Budget ==
    pc # "idle" =>
        /\ Len(stack) <= hist.n0 + 1
        /\ hist.calls <= hist.n0 + 1
        /\ \A i \in 1 .. Len(stack) :
              /\ stack[i].bounces >= 0
              /\ stack[i].bounces = hist.n0 - (i - 1)

\* C8: color(ray, world, n) terminates for every world and every sequence of
\* scatter outcomes: each recursive call is made with a budget exactly one less
\* than its caller's, no call is made with a budget below 0, and the chain of
\* nested calls has length at most n + 1.
C8_Terminates == []C8_Budget /\ <>(pc = "done")

\* a chain of n + 1 nested invocations, n > 1, the innermost with budget 0
C8_Witness ==
    /\ pc = "call"
    /\ hist.n0 > 1
    /\ Len(stack) = hist.n0 + 1
    /\ Top.bounces = 0

\* the hit the invocation recorded in event found, if it called scatter
ScatterCall == event # None /\ Get(event).rnd # None
EventHit == Get(World_hit_test(world, Get(event).ray, TMin, TMax))

\* dot product of the hit normal with the fuzz-perturbed reflection of the ray
FuzzedDot ==
    LET n == EventHit.hit.normal
        d == Get(event).ray.direction
        len == RSqrt(RAdd(RAdd(RMul(d.x, d.x), RMul(d.y, d.y)), RMul(d.z, d.z)))
        f0 == EventHit.material.fuzz
        f == IF RLt(f0, R(0)) THEN R(0) ELSE IF RLt(R(1), f0) THEN R(1) ELSE f0
        vn == RDiv(RAdd(RAdd(RMul(d.x, n.x), RMul(d.y, n.y)), RMul(d.z, n.z)), len)
        k == RMul(R(2), vn)
        rnd == Get(Get(event).rnd)
        dir == [x |-> RAdd(RSub(RDiv(d.x, len), RMul(k, n.x)), RMul(f, rnd.x)),
                y |-> RAdd(RSub(RDiv(d.y, len), RMul(k, n.y)), RMul(f, rnd.y)),
                z |-> RAdd(RSub(RDiv(d.z, len), RMul(k, n.z)), RMul(f, rnd.z))]
    IN  RAdd(RAdd(RMul(dir.x, n.x), RMul(dir.y, n.y)), RMul(dir.z, n.z))

\* the invocation recorded in event returned black without a recursive call
Absorbed ==
    /\ Get(event).kind = "absorbed"
    /\ Len(stack) = Get(event).depth - 1
    /\ Get(ret) = zero

\* the invocation recorded in event made the recursive call, its scatter
\* having succeeded with the albedo as attenuation
Scattered ==
    /\ Get(event).kind = "scatter"
    /\ Len(stack) = Get(event).depth + 1
    /\ stack[Get(event).depth].attenuation = Some(EventHit.material.albedo)

\* C9: when a ray hits a Metal sphere and the fuzz-perturbed reflected
\* direction has a dot product <= 0 with the hit normal, scatter returns
\* nothing and color returns black with no further recursive call; when the
\* dot product is > 0 scatter succeeds with attenuation equal to the albedo.
\* Diffuse scatter always succeeds.
C9_ScatterOutcome ==
    ScatterCall =>
        IF EventHit.material.kind = "Metal"
        THEN IF RLe(FuzzedDot, R(0)) THEN Absorbed ELSE Scattered
        ELSE Scattered

\* a Metal hit whose perturbed reflection is exactly perpendicular to the normal
C9_Witness ==
    /\ ScatterCall
    /\ EventHit.material.kind = "Metal"
    /\ FuzzedDot = R(0)
    /\ Absorbed

----------------------------------------------------------------------------
(* Bitmap::get_mut and Bitmap::iter_mut on one Bitmap *)

BitmapInit ==
    /\ \E width \in 0 .. MaxSide, height \in 0 .. MaxSide :
          bitmap = Bitmap_new(width, height)
    /\ got = None
    /\ yielded = <<>>
    /\ RenderIdle /\ PixelIdle /\ HitIdle /\ ColorIdle

\* a call bitmap.get_mut(x, y)
GetMutCall ==
    /\ \E x \in 0 .. MaxSide + 1, y \in 0 .. MaxSide + 1 :
          got' = Some([x |-> x, y |-> y, out |-> get_mut(bitmap, x, y)])
    /\ UNCHANGED <<bitmap, yielded>>
    /\ UNCHANGED <<renderVars, px, hitVars, colorVars>>

\* next() on the iterator bitmap.iter_mut() returned: the enumerated slice
\* iterator hands out buffer[0], buffer[1], ... and the map closure turns
\* (i, v) into (x, y, v)
IterMutNext ==
    /\ Len(yielded) < bitmap.width * bitmap.height
    /\ yielded' = Append(yielded, iter_mut_item(bitmap, Len(yielded)))
    /\ UNCHANGED <<bitmap, got>>
    /\ UNCHANGED <<renderVars, px, hitVars, colorVars>>

BitmapNext == GetMutCall \/ IterMutNext

SpecBitmap == BitmapInit /\ [][BitmapNext]_vars

InBounds(x, y) == x < bitmap.width /\ y < bitmap.height

\* C3: get_mut(x, y) returns None whenever x >= width or y >= height, and for
\* every in-bounds (x, y) the slot it returns is index
\* (height - y - 1) * width + x, which lies in 0 .. width * height - 1, the
\* index range of the buffer.
C3_GetMutInRange ==
    got # None =>
        LET g == Get(got)
        IN  IF InBounds(g.x, g.y)
            THEN /\ g.out = Some((bitmap.height - g.y - 1) * bitmap.width + g.x)
                 /\ Get(g.out) \in 0 .. bitmap.width * bitmap.height - 1
                 /\ Get(g.out) \in DOMAIN bitmap.buffer
            ELSE g.out = None

\* get_mut was called with x = width on a bitmap that has a row y
C3_Witness ==
    /\ got # None
    /\ bitmap.width > 0
    /\ Get(got).x = bitmap.width
    /\ Get(got).y < bitmap.height
    /\ Get(got).out = None

\* C10: on a bitmap with width > 0 and height > 0, iter_mut never yields a
\* coordinate pair twice, every pair it yields is in bounds and is paired
\* with the slot get_mut addresses for it, and once the iterator is drained
\* every in-bounds pair has been yielded.
C10_IterMutBijection ==
    (bitmap.width > 0 /\ bitmap.height > 0) =>
        /\ \A k \in 1 .. Len(yielded) :
              /\ InBounds(yielded[k].x, yielded[k].y)
              /\ get_mut(bitmap, yielded[k].x, yielded[k].y)
                     = Some(yielded[k].slot)
              /\ \A j \in 1 .. Len(yielded) :
                    (yielded[j].x = yielded[k].x /\ yielded[j].y = yielded[k].y)
                        => j = k
        /\ Len(yielded) = bitmap.width * bitmap.height =>
              \A x \in 0 .. bitmap.width - 1, y \in 0 .. bitmap.height - 1 :
                  \E k \in 1 .. Len(yielded) :
                      yielded[k].x = x /\ yielded[k].y = y

\* the iterator of a bitmap with at least two rows and two columns is drained
C10_Witness ==
    /\ bitmap.width > 1 /\ bitmap.height > 1
    /\ Len(yielded) = bitmap.width * bitmap.height

----------------------------------------------------------------------------
(* render: the pixel closure for one pixel *)

\* slot contents before the store
PriorSlots == {<<0, 0>>, <<65280, 0>>, <<65535, 65535>>, <<4660, 22136>>}

\* values color returns: black, the background gradient at t = 0, 1/2 and 1,
\* and gradients attenuated by an albedo of the scene
SampleColors ==
    {zero, white, skyblue, lerp(white, skyblue, Q(1, 2)),
     multiply(Vec3_new(Q(4, 5), Q(4, 5), R(0)), white),
     multiply(Vec3_new(Q(9, 10), Q(1, 5), Q(1, 5)), skyblue)}

PixelInit ==
    /\ \E p \in PriorSlots :
          px = [before |-> p, c |-> zero, samples |-> 0, after |-> None]
    /\ BitmapIdle /\ RenderIdle /\ HitIdle /\ ColorIdle

\* one turn of the sample loop: c = c + color(...)
PixelSample ==
    /\ px.after = None
    /\ px.samples < MaxSamples
    /\ \E s \in SampleColors :
          px' = [px EXCEPT !.c = add(px.c, s), !.samples = px.samples + 1]
    /\ UNCHANGED <<bitmapVars, renderVars, hitVars, colorVars>>

\* after the loop: c = c / MaxSamples, then gamma, quantisation and the store
PixelStore ==
    /\ px.after = None
    /\ px.samples = MaxSamples
    /\ \E avg \in {div_scalar(px.c, R(MaxSamples))} :
          px' = [px EXCEPT !.c = avg,
                           !.after = Some(pixel_store(px.before, avg))]
    /\ UNCHANGED <<bitmapVars, renderVars, hitVars, colorVars>>

PixelNext == PixelSample \/ PixelStore

SpecPixel == PixelInit /\ [][PixelNext]_vars

Stored == px # None /\ px.after # None

\* C7: when the closure has stored a pixel, r, g and b are each in 0 .. 255,
\* bits 24..31 of the slot are the bits it held before the store, and bits
\* 0..23 are r, g and b side by side.
C7_ChannelsAndAlpha ==
    Stored =>
        LET r == quantize(px.c.x)
            g == quantize(px.c.y)
            b == quantize(px.c.z)
            after == Get(px.after)
        IN  /\ r \in 0 .. 255 /\ g \in 0 .. 255 /\ b \in 0 .. 255
            /\ after[1] \div 256 = px.before[1] \div 256
            /\ after[1] % 256 = r
            /\ after[2] = g * 256 + b

\* a full-intensity red channel was stored into a slot whose top byte was 0x12
C7_Witness ==
    /\ Stored
    /\ px.before = <<4660, 22136>>
    /\ quantize(px.c.x) = 255
    /\ Get(px.after)[1] = 18 * 256 + 255

----------------------------------------------------------------------------
(* render: the parallel for_each over bitmap.iter_mut().par_bridge() *)

\* colours the closure stores
RenderColors == {skyblue, Vec3_new(Q(4, 5), Q(4, 5), R(0))}

RenderInit ==
    /\ \E width \in 1 .. MaxPixels, height \in 1 .. MaxPixels,
          workers \in 1 .. MaxWorkers :
          /\ width * height <= MaxPixels
          /\ bitmap = Bitmap_new(width, height)
          /\ held = [w \in 1 .. workers |-> None]
          /\ writes = [i \in 0 .. width * height - 1 |-> 0]
    /\ next_item = 0
    /\ returned = FALSE
    /\ got = None /\ yielded = <<>>
    /\ PixelIdle /\ HitIdle /\ ColorIdle

\* an idle worker takes the next item off the bridged iterator
WorkerTake(w) ==
    /\ ~returned
    /\ held[w] = None
    /\ next_item < bitmap.width * bitmap.height
    /\ held' = [held EXCEPT ![w] = Some(iter_mut_item(bitmap, next_item))]
    /\ next_item' = next_item + 1
    /\ UNCHANGED <<bitmap, got, yielded, writes, returned>>
    /\ UNCHANGED <<px, hitVars, colorVars>>

\* the worker's closure finishes: it stores through the reference p it holds
WorkerStore(w) ==
    /\ held[w] # None
    /\ \E c \in RenderColors, slot \in {Get(held[w]).slot} :
          /\ bitmap' = [bitmap EXCEPT
                           !.buffer[slot] = pixel_store(bitmap.buffer[slot], c)]
          /\ writes' = [writes EXCEPT ![slot] = writes[slot] + 1]
    /\ held' = [held EXCEPT ![w] = None]
    /\ UNCHANGED <<got, yielded, next_item, returned>>
    /\ UNCHANGED <<px, hitVars, colorVars>>

\* for_each returns: the iterator is exhausted and no closure is running
RenderReturn ==
    /\ ~returned
    /\ next_item >= bitmap.width * bitmap.height
    /\ \A w \in DOMAIN held : held[w] = None
    /\ returned' = TRUE
    /\ UNCHANGED <<bitmapVars, next_item, held, writes>>
    /\ UNCHANGED <<px, hitVars, colorVars>>

RenderNext ==
    \/ \E w \in DOMAIN held : WorkerTake(w)
    \/ \E w \in DOMAIN held : WorkerStore(w)
    \/ RenderReturn

SpecRender == RenderInit /\ [][RenderNext]_vars

RECURSIVE SumUpTo(_, _)
SumUpTo(f, n) == IF n < 0 THEN 0 ELSE f[n] + SumUpTo(f, n - 1)

\* C2: during one render call no slot is stored into twice, no two workers
\* hold a reference to the same slot, no worker holds a slot that was already
\* written, and when render has returned every slot was written exactly once,
\* width * height stores in total.
C2_EachSlotOnce ==
    /\ \A i \in DOMAIN writes : writes[i] <= 1
    /\ \A v \in DOMAIN held, w \in DOMAIN held :
          (v # w /\ held[v] # None /\ held[w] # None)
              => Get(held[v]).slot # Get(held[w]).slot
    /\ \A w \in DOMAIN held :
          held[w] # None =>
              /\ Get(held[w]).slot \in DOMAIN writes
              /\ writes[Get(held[w]).slot] = 0
    /\ returned =>
          /\ \A i \in 0 .. bitmap.width * bitmap.height - 1 : writes[i] = 1
          /\ SumUpTo(writes, bitmap.width * bitmap.height - 1)
                 = bitmap.width * bitmap.height

\* render has returned from a bitmap of several rows and columns that more
\* than one worker drained
C2_Witness ==
    /\ returned
    /\ bitmap.width > 1 /\ bitmap.height > 1
    /\ Cardinality(DOMAIN held) > 1

====
